---- MODULE Spec2Model ----
(***************************************************************************)
(* Model of 'zinbot's RfD patrol: the NewPagesFeed sweep                    *)
(* (pagetriage/newpages.py), the RfD verifier (pagetriage/rfd.py) and the  *)
(* on-wiki JSON log (logging_.py, classes.py).                             *)
(*                                                                         *)
(* Strings are sequences of one-character strings, so that removeprefix,  *)
(* replace and split are computed and not assumed.  Dates are day numbers. *)
(***************************************************************************)
EXTENDS Integers, Sequences, FiniteSets, TLC

VARIABLES
    store,              \* JSON document on the wiki log page: day-key -> list of Events
    now,                \* the date of the clock of the bot's host, as a day number
    last,               \* the OnWikiLogger.log / rfd.cleanup call of the last step (NoCall: none)
    pc,                 \* position of checkqueue / main.run
    queue,              \* checkqueue: `queue`
    idx,                \* checkqueue: position of the `for page_data in queue` loop
    unreviewed_titles,  \* checkqueue: `unreviewed_titles`
    reviewed,           \* server side: pageids marked reviewed through PageTriage
    creation,           \* server side: pageid -> creation_date of the pages of the feed
    chk,                \* the most recent check_rfd call, what it saw and what it caused
    notnominated,       \* titles for which check_rfd found no RfD tag in the running sweep
    sweeps,             \* number of checkqueue calls started by main
    trace,              \* the feed queries, checks, log writes, reviews and cleanup of the running sweep, in order
    nodate,             \* server side: pageids whose feed entry comes without 'creation_date'
    probe,              \* a tag of a log page, a page title, and what _is_correct_anchor said
    runs,               \* number of times the bot process was started again after it died
    writers,            \* the clients that edit the log page: the copy each loaded and its position
    skew                \* days by which the date of the wiki's server is ahead of the host's date

vars == <<store, now, last, pc, queue, idx, unreviewed_titles, reviewed,
          creation, chk, notnominated, sweeps, trace, nodate, probe, runs,
          writers, skew>>

sweepvars == <<pc, queue, idx, unreviewed_titles, reviewed, creation, chk,
               notnominated, sweeps, trace, nodate>>

sidevars == <<runs, writers, skew>>

---------------------------------------------------------------------------
(* Bounds *)

MaxDay == 8             \* the clock runs over days 0..MaxDay
MaxSweeps == 1          \* checkqueue calls per behaviour
MaxDate == 2            \* creation_date values 1..MaxDate
MaxFeedDate == 3        \* creation_date values of the feed of one examined call

(* OnWikiLogger.day_too_old: dt.timedelta(days=7) *)
RetentionDays == 7

(* _buildqueue: 'limit': 200, scaled to the size of the modelled feed *)
PageLimit == 2

---------------------------------------------------------------------------
(* Strings *)

Range(s) == {s[i] : i \in 1..Len(s)}

(* str.removeprefix(":") *)
RemovePrefixColon(s) == IF Len(s) > 0 /\ s[1] = ":" THEN Tail(s) ELSE s

(* Namespace.MAIN.prefix: raw_prefix '' + ":" *)
MainPrefix == <<":">>

(* Title.__new__: namespace.prefix + pagename, for a mainspace page *)
Title(pagename) == MainPrefix \o pagename

(* Page names of the modelled feed, by pageid *)
PageIds == {1, 2, 3}
PageName(p) == IF p = 1 THEN <<"W">> ELSE IF p = 2 THEN <<"G">> ELSE <<"F", "\"">>
PageNames == {PageName(p) : p \in PageIds}

---------------------------------------------------------------------------
(* rfd.py: anchors on an RfD log page *)

Whitespace == {" ", "\t", "\n"}

(* str.split(): the maximal runs of non-whitespace characters, in order *)
RECURSIVE SplitWs(_, _, _)
SplitWs(text, i, word) ==
    IF i > Len(text)
    THEN IF word = <<>> THEN <<>> ELSE <<word>>
    ELSE IF text[i] \in Whitespace
         THEN IF word = <<>>
              THEN SplitWs(text, i + 1, <<>>)
              ELSE <<word>> \o SplitWs(text, i + 1, <<>>)
         ELSE SplitWs(text, i + 1, Append(word, text[i]))

(* " ".join(words) *)
RECURSIVE JoinSpace(_)
JoinSpace(words) ==
    IF words = <<>> THEN <<>>
    ELSE IF Len(words) = 1 THEN words[1]
    ELSE words[1] \o <<" ">> \o JoinSpace(Tail(words))

(* _compress_ws *)
compress_ws(text) == JoinSpace(SplitWs(text, 1, <<>>))

Quot == <<"&", "q", "u", "o", "t", ";">>

(* str.replace('"', "&quot;") *)
RECURSIVE ReplaceQuotes(_)
ReplaceQuotes(text) ==
    IF text = <<>> THEN <<>>
    ELSE (IF Head(text) = "\"" THEN Quot ELSE <<Head(text)>>)
         \o ReplaceQuotes(Tail(text))

(* the anchor without the escaping of quotation marks *)
Anchor_noescape(page_title) == RemovePrefixColon(page_title)

(* page_title.replace('"', "&quot;").removeprefix(":") *)
Anchor(page_title) == RemovePrefixColon(ReplaceQuotes(page_title))

(* Nodes of a parsed page: headings and tags; a tag has an id attribute or
   none, written in double quotes, in single quotes or without quotes *)
DoubleQuote == <<"\"">>
SingleQuote == <<"'">>
NoQuote == <<>>

Heading(title) ==
    [kind |-> "heading", title |-> title, tag |-> "", id |-> <<>>,
     hasid |-> FALSE, quotes |-> NoQuote]

QuotedTag(name, id, quotes) ==
    [kind |-> "tag", title |-> <<>>, tag |-> name, id |-> id, hasid |-> TRUE,
     quotes |-> quotes]

TagNode(name, hasid, id) ==
    [kind |-> "tag", title |-> <<>>, tag |-> name, id |-> id, hasid |-> hasid,
     quotes |-> IF hasid THEN DoubleQuote ELSE NoQuote]

(* str(tag.get('id')): pad, name, "=", and the value in its quotes *)
AttrStr(value, quotes) == <<" ", "i", "d", "=">> \o quotes \o value \o quotes

(* str.split("=", maxsplit=1)[1] *)
RECURSIVE AfterFirstEq(_)
AfterFirstEq(text) ==
    IF text = <<>> THEN <<>>
    ELSE IF Head(text) = "=" THEN Tail(text)
    ELSE AfterFirstEq(Tail(text))

(* .removeprefix('"').removesuffix('"') *)
StripQuotePair(text) ==
    LET a == IF Len(text) > 0 /\ text[1] = "\"" THEN Tail(text) ELSE text
    IN  IF Len(a) > 0 /\ a[Len(a)] = "\"" THEN SubSeq(a, 1, Len(a) - 1) ELSE a

(* _is_correct_anchor *)
is_correct_anchor(node, target) ==
    IF node.tag # "span" THEN FALSE
    ELSE IF ~node.hasid THEN FALSE
    ELSE compress_ws(StripQuotePair(AfterFirstEq(AttrStr(node.id, node.quotes)))) = target

(* _check_filed: `filed`, the headings or else the tags that match the anchor *)
Filed(nodes, page_title) ==
    LET anchor == Anchor(page_title)
    IN  \/ \E i \in 1..Len(nodes) :
              nodes[i].kind = "heading" /\ compress_ws(nodes[i].title) = anchor
        \/ \E i \in 1..Len(nodes) :
              nodes[i].kind = "tag" /\ is_correct_anchor(nodes[i], anchor)

---------------------------------------------------------------------------
(* classes.py: SensitivityMixin, SensitiveDict, SensitiveList *)

SensitiveList(v) == [list |-> v, changed |-> FALSE]

(* list.insert(0, item) in place of append *)
SensitiveList_prepend(l, item) == [list |-> <<item>> \o l.list, changed |-> TRUE]

SensitiveList_append(l, item) == [list |-> Append(l.list, item), changed |-> TRUE]

SensitiveList_been_changed(l) == l.changed

SensitiveDict(d) == [items |-> d, changed |-> FALSE]

SensitiveDict_setitem(data, k, v) ==
    [items |-> [x \in (DOMAIN data.items) \cup {k} |->
                   IF x = k THEN v ELSE data.items[x]],
     changed |-> TRUE]

SensitiveDict_delitem(data, k) ==
    [items |-> [x \in (DOMAIN data.items) \ {k} |-> data.items[x]],
     changed |-> TRUE]

been_changed(data) ==
    \/ \E k \in DOMAIN data.items : SensitiveList_been_changed(data.items[k])
    \/ data.changed

---------------------------------------------------------------------------
(* logging_.py: OnWikiLogger *)

Codes == {"RFD0", "RFD1", "RFD2"}

EmptyStore == [d \in {} |-> <<>>]

(* _load_json: SensitiveDict({k: SensitiveList(v) ...}) of the page's JSON *)
load_json(text) == SensitiveDict([k \in DOMAIN text |-> SensitiveList(text[k])])

(* json.dumps(data): the flags are not serialised *)
json_dumps(data) == [k \in DOMAIN data.items |-> data.items[k].list]

(* [i['page'] for day in data.values() for i in day] *)
LoggedPages(data) ==
    UNION {{data.items[k].list[i].page : i \in 1..Len(data.items[k].list)} :
               k \in DOMAIN data.items}

(* message.value.format(page=page, rfd=rfd) *)
Format(code, page, rfd) == [template |-> code, page |-> page, rfd |-> rfd]

(* dt.datetime.now(): a reading of the clock, of which the model keeps the date *)
Readings(date) == {[date |-> date]}

(* now.strftime(_dateformat): "%Y-%m-%d", the date of the reading *)
DayKey(t) == t.date

(* the timestamp from a second reading of the clock, taken after midnight *)
Timestamp_secondread(t) == [date |-> t.date + 1, zone |-> "(UTC)"]

(* now.strftime(_timestampformat): "%Y-%m-%d %H:%M:%S (UTC)" *)
Timestamp(t) == [date |-> t.date, zone |-> "(UTC)"]

(* log without the "already logged" test *)
log_body_nodedup(data, code, page, rfd, t) ==
    LET today == DayKey(t)
        d1 == IF today \notin DOMAIN data.items
              THEN SensitiveDict_setitem(data, today, SensitiveList(<<>>))
              ELSE data
        ev == [page |-> page, code |-> code,
               message |-> Format(code, page, rfd),
               timestamp |-> Timestamp(t)]
    IN  [d1 EXCEPT !.items[today] = SensitiveList_append(@, ev)]

(* log that skips only an event of the same page and the same code *)
log_body_samecode(data, code, page, rfd, t) ==
    IF \E k \in DOMAIN data.items : \E i \in 1..Len(data.items[k].list) :
           data.items[k].list[i].page = page /\ data.items[k].list[i].code = code
    THEN data
    ELSE log_body_nodedup(data, code, page, rfd, t)

(* body of `with self.edit(...) as data:` in OnWikiLogger.log *)
log_body(data, code, page, rfd, t) ==
    IF page \in LoggedPages(data)
    THEN data
    ELSE LET today == DayKey(t)
             d1 == IF today \notin DOMAIN data.items
                   THEN SensitiveDict_setitem(data, today, SensitiveList(<<>>))
                   ELSE data
             ev == [page |-> page, code |-> code,
                    message |-> Format(code, page, rfd),
                    timestamp |-> Timestamp(t)]
         IN  [d1 EXCEPT !.items[today] = SensitiveList_append(@, ev)]

(* OnWikiLogger.edit: load, run the body, save if been_changed() *)
edit_exit(text, data) ==
    IF been_changed(data)
    THEN [text |-> json_dumps(data), writes |-> 1]
    ELSE [text |-> text, writes |-> 0]

(* OnWikiLogger.log *)
log(text, code, page, rfd, t) ==
    edit_exit(text, log_body(load_json(text), code, page, rfd, t))

(* day_too_old with >= for > *)
day_too_old_ge(day, t) == t.date - day >= RetentionDays

(* OnWikiLogger.day_too_old: now().date() - strptime(day).date() > 7 days *)
day_too_old(day, t) == t.date - day > RetentionDays

(* the filter without removeprefix(":") *)
KeepPending_nostrip(entries, titles) ==
    SelectSeq(entries, LAMBDA e : e.page \in titles)

(* [i for i in entries if i['page'].removeprefix(":") in unreviewed_titles] *)
KeepPending(entries, titles) ==
    SelectSeq(entries, LAMBDA e : RemovePrefixColon(e.page) \in titles)

(* rfd.cleanup: one iteration of `for day, entries in data.copy().items()` *)
cleanup_day(data, day, entries, titles, t) ==
    IF day_too_old(day, t)
    THEN SensitiveDict_delitem(data, day)
    ELSE LET kept == SensitiveList(KeepPending(entries.list, titles))
         IN  IF kept.list = <<>>
             THEN SensitiveDict_delitem(data, day)
             ELSE SensitiveDict_setitem(data, day, kept)

RECURSIVE cleanup_loop(_, _, _, _, _)
cleanup_loop(data, copy, days, titles, t) ==
    IF days = {}
    THEN data
    ELSE LET day == CHOOSE d \in days : \A e \in days : d <= e
         IN  cleanup_loop(cleanup_day(data, day, copy[day], titles, t),
                          copy, days \ {day}, titles, t)

(* rfd.cleanup *)
cleanup(text, titles, t) ==
    LET data == load_json(text)
    IN  edit_exit(text, cleanup_loop(data, data.items, DOMAIN data.items, titles, t))

---------------------------------------------------------------------------
(* rfd.py: titles of the RfD log pages *)

(* the `year`, `month`, `day` parameters of the RfD tag *)
DateParams == {[year |-> "2024", month |-> "January", day |-> "5"]}

(* Title(Namespace.PROJECT, f"Redirects for discussion/Log/{year} {month} {day}") *)
RfdTitle(d) == <<"Project:", "Redirects for discussion/Log/", d.year, d.month, d.day>>

NoCall == [op |-> "none", code |-> "none", page |-> <<>>, rfd |-> <<>>,
           titles |-> {}, before |-> EmptyStore,
           t |-> [date |-> 0], writes |-> 0]

---------------------------------------------------------------------------
(* The wiki as check_rfd reads it *)

(* Wikitext of an RfD log page, parsed: a span without id and another page's
   heading; a heading of the page name with irregular whitespace; the span
   that {{rfd2}} generates *)
LogTexts(name) ==
    { <<TagNode("span", FALSE, <<>>), Heading(<<"O">>)>>,
      <<Heading(<<" ">> \o name \o <<" ", " ">>)>>,
      <<TagNode("span", TRUE, ReplaceQuotes(name))>> }

(* What the wiki holds for one page when it is checked: whether the page
   carries the RfD tag and with which date, whether the dated log page
   exists, its text, and whether it is transcluded on the main RfD page *)
NoDate == [year |-> "", month |-> "", day |-> ""]

Envs(name) ==
    { [tagged |-> FALSE, date |-> NoDate, exists |-> FALSE, text |-> <<>>,
       transcluded |-> FALSE] }
    \cup { [tagged |-> TRUE, date |-> d, exists |-> FALSE, text |-> <<>>,
            transcluded |-> FALSE] : d \in DateParams }
    \cup { [tagged |-> TRUE, date |-> d, exists |-> TRUE, text |-> x,
            transcluded |-> tr] :
               d \in DateParams, x \in LogTexts(name), tr \in BOOLEAN }

(* client.get_page(title, ns, must_exist): the Page, or PageNotFoundError
   raised `if must_exist and not page.exists()` *)
get_page(exists, must_exist) ==
    IF must_exist /\ ~exists THEN "PageNotFoundError" ELSE "Page"

(* _check_filed that returns False also at its end *)
check_filed_false(page_title, env) ==
    IF get_page(env.exists, TRUE) = "PageNotFoundError"
    THEN [code |-> "RFD0", result |-> FALSE, probed |-> TRUE, raised |-> "none"]
    ELSE IF ~Filed(env.text, page_title)
    THEN [code |-> "RFD1", result |-> TRUE, probed |-> TRUE, raised |-> "none"]
    ELSE IF ~env.transcluded
    THEN [code |-> "RFD2", result |-> FALSE, probed |-> TRUE, raised |-> "none"]
    ELSE [code |-> "none", result |-> FALSE, probed |-> TRUE, raised |-> "none"]

(* _check_filed with the messages of the two last cases exchanged *)
check_filed_swapped(page_title, env) ==
    IF get_page(env.exists, TRUE) = "PageNotFoundError"
    THEN [code |-> "RFD0", result |-> FALSE, probed |-> TRUE, raised |-> "none"]
    ELSE IF ~Filed(env.text, page_title)
    THEN [code |-> "RFD2", result |-> TRUE, probed |-> TRUE, raised |-> "none"]
    ELSE IF ~env.transcluded
    THEN [code |-> "RFD1", result |-> FALSE, probed |-> TRUE, raised |-> "none"]
    ELSE [code |-> "none", result |-> TRUE, probed |-> TRUE, raised |-> "none"]

(* _check_filed without its `except PageNotFoundError:` *)
check_filed_nocatch(page_title, env) ==
    IF get_page(env.exists, TRUE) = "PageNotFoundError"
    THEN [code |-> "none", result |-> FALSE, probed |-> TRUE,
          raised |-> "PageNotFoundError"]
    ELSE IF ~Filed(env.text, page_title)
    THEN [code |-> "RFD1", result |-> TRUE, probed |-> TRUE, raised |-> "none"]
    ELSE IF ~env.transcluded
    THEN [code |-> "RFD2", result |-> FALSE, probed |-> TRUE, raised |-> "none"]
    ELSE [code |-> "none", result |-> TRUE, probed |-> TRUE, raised |-> "none"]

(* _check_filed: the code logged (or "none"), the bool returned, and the
   exception that leaves it (none: PageNotFoundError is caught) *)
check_filed(page_title, env) ==
    IF get_page(env.exists, TRUE) = "PageNotFoundError"
    THEN [code |-> "RFD0", result |-> FALSE, probed |-> TRUE, raised |-> "none"]
    ELSE IF ~Filed(env.text, page_title)
    THEN [code |-> "RFD1", result |-> TRUE, probed |-> TRUE, raised |-> "none"]
    ELSE IF ~env.transcluded
    THEN [code |-> "RFD2", result |-> FALSE, probed |-> TRUE, raised |-> "none"]
    ELSE [code |-> "none", result |-> TRUE, probed |-> TRUE, raised |-> "none"]

(* check_rfd without the `date_params is None` test *)
check_rfd_nonone(page_title, env) == check_filed(page_title, env)

(* check_rfd *)
check_rfd(page_title, env) ==
    IF ~env.tagged
    THEN [code |-> "none", result |-> FALSE, probed |-> FALSE, raised |-> "none"]
    ELSE check_filed(page_title, env)

---------------------------------------------------------------------------
(* newpages.py: the feed and the sweep *)

(* an entry of the 'pages' list; the feed may leave out 'creation_date' *)
Entry(p) ==
    IF p \in nodate
    THEN [title |-> PageName(p), pageid |-> p]
    ELSE [title |-> PageName(p), pageid |-> p, creation_date |-> creation[p]]

RECURSIVE OldestFirst(_)
OldestFirst(ps) ==
    IF ps = {} THEN <<>>
    ELSE LET p == CHOOSE x \in ps : \A y \in ps :
                      \/ creation[x] < creation[y]
                      \/ creation[x] = creation[y] /\ x <= y
         IN  <<Entry(p)>> \o OldestFirst(ps \ {p})

(* _buildqueue that leaves out 'showunreviewed' *)
buildqueue_showreviewed(start) ==
    LET all == OldestFirst({p \in PageIds : creation[p] >= start})
    IN  SubSeq(all, 1, IF Len(all) < PageLimit THEN Len(all) ELSE PageLimit)

(* a feed that pays no heed to 'date_range_from' and lists the page of the
   highest pageid first *)
buildqueue_anyorder(start) ==
    LET all == OldestFirst({p \in PageIds : p \notin reviewed})
        rev == [i \in 1..Len(all) |-> all[Len(all) + 1 - i]]
    IN  SubSeq(rev, 1, IF Len(rev) < PageLimit THEN Len(rev) ELSE PageLimit)

(* _buildqueue without 'limit': the whole feed from `start` on in one page *)
buildqueue_nolimit(start) ==
    OldestFirst({p \in PageIds : p \notin reviewed /\ creation[p] >= start})

(* _buildqueue: at most 'limit' unreviewed pages from `start` on, oldest first *)
buildqueue(start) ==
    LET all == OldestFirst({p \in PageIds : p \notin reviewed /\ creation[p] >= start})
    IN  SubSeq(all, 1, IF Len(all) < PageLimit THEN Len(all) ELSE PageLimit)

(* [i['title'] for i in queue] *)
TitlesOf(q) == [i \in 1..Len(q) |-> q[i].title]

(* list.remove(x): drops the first occurrence *)
Remove(l, x) ==
    LET i == CHOOSE k \in 1..Len(l) : l[k] = x /\ \A j \in 1..(k - 1) : l[j] # x
    IN  SubSeq(l, 1, i - 1) \o SubSeq(l, i + 1, Len(l))

(* the break only when the page comes back short of the limit *)
SweepDone_short(q, newqueue) ==
    \/ newqueue = <<>>
    \/ Len(newqueue) < PageLimit

(* the break test with only its first half *)
SweepDone_emptyonly(q, newqueue) == newqueue = <<>>

(* a break at the end of the first pass, whatever was fetched *)
SweepDone_always(q, newqueue) == TRUE

(* `if not newqueue or queue[-1]['pageid'] == newqueue[-1]['pageid']: break` *)
SweepDone(q, newqueue) ==
    \/ newqueue = <<>>
    \/ q[Len(q)].pageid = newqueue[Len(newqueue)].pageid

(* the next query one past the last timestamp *)
Cursor_plusone(q) == q[Len(q)].creation_date + 1

(* `last: int = queue[-1]['creation_date']`, passed on as `start=last` *)
Cursor(q) == q[Len(q)].creation_date

(* What checkqueue does, step by step: a feed query (its cursor, the pageids
   returned and the last of them, 0 for none), the check_rfd of a page, the
   write of the log page by a log call (with its code), a mark-reviewed
   call and the time.sleep(10) of api.post after it, the cleanup call, and
   the exception that a request raised *)
Req(op, pageid, code, start, ids) ==
    [op |-> op, pageid |-> pageid, code |-> code, start |-> start, ids |-> ids]

Fetch(start, q) ==
    Req("fetch", IF q = <<>> THEN 0 ELSE q[Len(q)].pageid, "none", start,
        {q[i].pageid : i \in 1..Len(q)})

NoCheck == [title |-> <<>>, pageid |-> 0,
            env |-> [tagged |-> FALSE, date |-> NoDate, exists |-> FALSE,
                     text |-> <<>>, transcluded |-> FALSE],
            result |-> FALSE, marked |-> FALSE, probed |-> FALSE,
            logcalls |-> 0, code |-> "none", before |-> <<>>,
            stored |-> EmptyStore, raised |-> "none", pos |-> 0]

NoProbe == [node |-> TagNode("", FALSE, <<>>), title |-> <<>>, result |-> "none"]

(* the clients that run OnWikiLogger.log on the one log page *)
WriterIds == {1, 2}

(* a client outside `with self.edit(...)`: no copy of the document loaded *)
IdleWriter == [pc |-> "idle", copy |-> EmptyStore, code |-> "none", page |-> <<>>,
               rfd |-> <<>>, t |-> [date |-> 0], seen |-> {}, order |-> 0,
               writes |-> 0]

(* one bot process from its first start, no other client at work on the log
   page, the clocks of host and server on the same date *)
InitSide ==
    /\ runs = 0
    /\ writers = [w \in WriterIds |-> IdleWriter]
    /\ skew = 0

Init ==
    /\ store = EmptyStore
    /\ now = 0
    /\ last = NoCall
    /\ pc = "idle"
    /\ queue = <<>>
    /\ idx = 0
    /\ unreviewed_titles = <<>>
    /\ reviewed = {}
    /\ creation \in {f \in [PageIds -> 1..MaxDate] :
                          \A p, q \in PageIds : p <= q => f[p] <= f[q]}
    /\ chk = NoCheck
    /\ notnominated = {}
    /\ sweeps = 0
    /\ trace = <<>>
    /\ nodate = {}
    /\ probe = NoProbe
    /\ InitSide

(* main.run -> checkqueue, up to the first pass of `while True:` *)
StartSweep ==
    /\ pc = "idle"
    /\ sweeps < MaxSweeps
    /\ sweeps' = sweeps + 1
    /\ queue' = buildqueue(1)
    /\ unreviewed_titles' = TitlesOf(queue')
    /\ idx' = 1
    /\ pc' = "for"
    /\ notnominated' = {}
    /\ chk' = NoCheck
    /\ last' = NoCall
    /\ trace' = <<Fetch(1, queue')>>
    /\ UNCHANGED <<store, now, reviewed, creation, nodate, probe, sidevars>>

(* one pass of `for page_data in queue:` *)
CheckEntry ==
    /\ pc = "for"
    /\ idx <= Len(queue)
    /\ \E env \in Envs(queue[idx].title), t \in Readings(now) :
          LET page_data == queue[idx]
              page_title == Title(page_data.title)
              c == check_rfd(page_title, env)
              rfd_title == RfdTitle(env.date)
              r == IF c.code = "none"
                   THEN [text |-> store, writes |-> 0]
                   ELSE log(store, c.code, page_title, rfd_title, t)
          IN  /\ store' = r.text
              /\ last' = IF c.code = "none" THEN NoCall
                         ELSE [op |-> "log", code |-> c.code, page |-> page_title,
                               rfd |-> rfd_title, titles |-> {}, before |-> store,
                               t |-> t, writes |-> r.writes]
              /\ reviewed' = IF c.result THEN reviewed \cup {page_data.pageid}
                             ELSE reviewed
              /\ unreviewed_titles' =
                     IF c.result THEN Remove(unreviewed_titles, page_data.title)
                     ELSE unreviewed_titles
              /\ notnominated' = IF env.tagged THEN notnominated
                                 ELSE notnominated \cup {page_data.title}
              /\ chk' = [title |-> page_data.title, pageid |-> page_data.pageid,
                         env |-> env, result |-> c.result, marked |-> c.result,
                         probed |-> c.probed,
                         logcalls |-> IF c.code = "none" THEN 0 ELSE 1,
                         code |-> c.code, before |-> unreviewed_titles,
                         stored |-> store, raised |-> c.raised, pos |-> idx]
              /\ trace' = trace
                     \o <<Req("verify", page_data.pageid, "none", 0, {})>>
                     \o (IF r.writes = 0 THEN <<>>
                         ELSE <<Req("logwrite", page_data.pageid, c.code, 0, {})>>)
                     \o (IF c.result
                         THEN <<Req("review", page_data.pageid, "none", 0, {}),
                                Req("sleep", page_data.pageid, "none", 0, {})>>
                         ELSE <<>>)
              \* an exception that leaves check_rfd leaves checkqueue too
              /\ pc' = IF c.raised = "none" THEN pc ELSE c.raised
    /\ idx' = idx + 1
    /\ UNCHANGED <<now, queue, creation, sweeps, nodate, probe, sidevars>>

(* after the for loop: `last`, `newqueue`, break or the next pass *)
NextQueue ==
    /\ pc = "for"
    /\ idx > Len(queue)
    /\ last' = NoCall
    /\ chk' = NoCheck
    /\ IF queue = <<>>
       THEN \* queue[-1]: IndexError, which main answers with sys.exit()
            /\ pc' = "exit"
            /\ UNCHANGED <<queue, idx, unreviewed_titles, trace>>
       ELSE IF "creation_date" \notin DOMAIN queue[Len(queue)]
       THEN \* KeyError: raise QueueError("No 'creation_date' on last entry")
            /\ pc' = "QueueError"
            /\ UNCHANGED <<queue, idx, unreviewed_titles, trace>>
       ELSE LET start == Cursor(queue)
                newqueue == buildqueue(start)
            IN  /\ trace' = Append(trace, Fetch(start, newqueue))
                /\ IF SweepDone(queue, newqueue)
                   THEN /\ pc' = "cleanup"
                        /\ UNCHANGED <<queue, idx, unreviewed_titles>>
                   ELSE /\ queue' = newqueue
                        /\ unreviewed_titles' = unreviewed_titles \o TitlesOf(newqueue)
                        /\ idx' = 1
                        /\ pc' = "for"
    /\ UNCHANGED <<store, now, reviewed, creation, notnominated, sweeps, nodate,
                   probe, sidevars>>

(* rfd.cleanup(unreviewed_titles) at the end of checkqueue *)
Cleanup ==
    /\ pc = "cleanup"
    /\ \E t \in Readings(now) :
          LET titles == Range(unreviewed_titles)
              r == cleanup(store, titles, t)
          IN  /\ store' = r.text
              /\ last' = [op |-> "cleanup", code |-> "none", page |-> <<>>,
                          rfd |-> <<>>, titles |-> titles, before |-> store,
                          t |-> t, writes |-> r.writes]
    /\ pc' = "done"
    /\ chk' = NoCheck
    /\ trace' = Append(trace, Req("cleanup", 0, "none", 0, {}))
    /\ UNCHANGED <<now, queue, idx, unreviewed_titles, reviewed, creation,
                   notnominated, sweeps, nodate, probe, sidevars>>

(* Days that pass between two runs: the sleep of main within one day or
   across midnight, or the bot is started again after more than
   RetentionDays days *)
Elapsed == {0, 1, RetentionDays + 1}

(* main: print("Run done. Sleeping."); time.sleep(1800) *)
Sleep ==
    /\ pc = "done"
    /\ pc' = "idle"
    /\ last' = NoCall
    /\ \E k \in Elapsed : now + k <= MaxDay /\ now' = now + k
    /\ trace' = <<>>
    /\ UNCHANGED <<store, queue, idx, unreviewed_titles, reviewed, creation,
                   chk, notnominated, sweeps, nodate, probe, sidevars>>

---------------------------------------------------------------------------
(* Requests that fail.  api._request raises APIError (or lets
   requests.HTTPError through), page.edit of mwclient raises its own errors;
   checkqueue catches KeyError only and main catches IndexError only, so
   the exception ends the process. *)

MaxRuns == 1            \* times the bot is started again

(* how a bot process can have ended *)
DeadEnds == {"APIError", "EditError", "QueueError", "PageNotFoundError", "exit"}

(* an exception that is caught and the loop of checkqueue gone on with *)
Uncaught_resumed(exc) == "for"

(* where an exception of a request leaves the process: `except KeyError` in
   checkqueue and `except IndexError` in main do not catch it *)
Uncaught(exc) == exc

(* _buildqueue raises: the first query of checkqueue, or the one for `newqueue` *)
FetchFails ==
    /\ \/ /\ pc = "idle"
          /\ sweeps < MaxSweeps
          /\ sweeps' = sweeps + 1
          /\ unreviewed_titles' = <<>>
          /\ notnominated' = {}
          /\ trace' = <<Req("fetch", 0, "none", 1, {}),
                        Req("raise", 0, "APIError", 0, {})>>
       \/ /\ pc = "for"
          /\ idx > Len(queue)
          /\ queue # <<>>
          /\ "creation_date" \in DOMAIN queue[Len(queue)]
          /\ trace' = trace \o <<Req("fetch", 0, "none", Cursor(queue), {}),
                                 Req("raise", 0, "APIError", 0, {})>>
          /\ UNCHANGED <<sweeps, unreviewed_titles, notnominated>>
    /\ pc' = Uncaught("APIError")
    /\ last' = NoCall
    /\ chk' = NoCheck
    /\ UNCHANGED <<store, now, queue, idx, reviewed, creation, nodate, probe,
                   sidevars>>

(* what can raise in one pass of the for loop: the reads of api.get_page and
   check_rfd, the page.edit of a log call, the api.post of _review *)
FailPoints == {"verify", "logwrite", "review"}

(* one pass of `for page_data in queue:` in which a request raises *)
EntryFails ==
    /\ pc = "for"
    /\ idx <= Len(queue)
    /\ \E env \in Envs(queue[idx].title), t \in Readings(now), point \in FailPoints :
          LET page_data == queue[idx]
              page_title == Title(page_data.title)
              c == check_rfd(page_title, env)
              rfd_title == RfdTitle(env.date)
              r == IF c.code = "none"
                   THEN [text |-> store, writes |-> 0]
                   ELSE log(store, c.code, page_title, rfd_title, t)
              logged == IF r.writes = 0 THEN <<>>
                        ELSE <<Req("logwrite", page_data.pageid, c.code, 0, {})>>
          IN  /\ point = "logwrite" => r.writes # 0
              /\ point = "review" => c.result
              \* the log page is written before _review is reached
              /\ store' = IF point = "review" THEN r.text ELSE store
              /\ notnominated' = IF env.tagged \/ point = "verify" THEN notnominated
                                 ELSE notnominated \cup {page_data.title}
              /\ trace' = trace
                     \o <<Req("verify", page_data.pageid, "none", 0, {})>>
                     \o (IF point = "verify" THEN <<>> ELSE logged)
                     \o (IF point = "review"
                         THEN <<Req("review", page_data.pageid, "none", 0, {})>>
                         ELSE <<>>)
                     \o <<Req("raise", page_data.pageid,
                              IF point = "logwrite" THEN "EditError" ELSE "APIError",
                              0, {})>>
              /\ pc' = Uncaught(IF point = "logwrite" THEN "EditError" ELSE "APIError")
    /\ last' = NoCall
    /\ chk' = NoCheck
    /\ UNCHANGED <<now, queue, idx, unreviewed_titles, reviewed, creation, sweeps,
                   nodate, probe, sidevars>>

(* rfd.cleanup in which the read or the write of the log page raises *)
CleanupFails ==
    /\ pc = "cleanup"
    /\ pc' = Uncaught("EditError")
    /\ last' = NoCall
    /\ chk' = NoCheck
    /\ trace' = trace \o <<Req("cleanup", 0, "none", 0, {}),
                           Req("raise", 0, "EditError", 0, {})>>
    /\ UNCHANGED <<store, now, queue, idx, unreviewed_titles, reviewed, creation,
                   notnominated, sweeps, nodate, probe, sidevars>>

(* the bot is started again after its process has died: main from its top,
   nothing of the dead process but what is on the wiki *)
Restart ==
    /\ pc \in DeadEnds
    /\ runs < MaxRuns
    /\ runs' = runs + 1
    /\ pc' = "idle"
    /\ sweeps' = 0
    /\ last' = NoCall
    /\ chk' = NoCheck
    /\ trace' = <<>>
    /\ queue' = <<>>
    /\ idx' = 0
    /\ unreviewed_titles' = <<>>
    /\ notnominated' = {}
    /\ UNCHANGED <<store, now, reviewed, creation, nodate, probe, writers, skew>>

NextFail ==
    \/ StartSweep \/ CheckEntry \/ NextQueue \/ Cleanup
    \/ FetchFails \/ EntryFails \/ CleanupFails \/ Restart

(* the bot at its first start on a feed of three unreviewed pages, the first
   on the first date and the others together on the last one, so that a
   second query starts on a timestamp that two entries share *)
InitFail ==
    /\ store = EmptyStore
    /\ now = 0
    /\ last = NoCall
    /\ pc = "idle"
    /\ queue = <<>>
    /\ idx = 0
    /\ unreviewed_titles = <<>>
    /\ reviewed = {}
    /\ creation = [p \in PageIds |-> IF p = 1 THEN 1 ELSE MaxDate]
    /\ chk = NoCheck
    /\ notnominated = {}
    /\ sweeps = 0
    /\ trace = <<>>
    /\ nodate = {}
    /\ probe = NoProbe
    /\ InitSide

SpecFail == InitFail /\ [][NextFail]_vars

---------------------------------------------------------------------------
(* One call of checkqueue on any feed: pages reviewed before the call, and
   feed entries that come without 'creation_date'.  The process runs on:
   each enabled step of checkqueue is eventually taken. *)

InitFeed ==
    /\ store = EmptyStore
    /\ now = 0
    /\ last = NoCall
    /\ pc = "idle"
    /\ queue = <<>>
    /\ idx = 0
    /\ unreviewed_titles = <<>>
    /\ reviewed \in SUBSET PageIds
    /\ creation \in {f \in [PageIds -> 1..MaxFeedDate] :
                          \A p, q \in PageIds : p <= q => f[p] <= f[q]}
    /\ chk = NoCheck
    /\ notnominated = {}
    /\ sweeps = 0
    /\ trace = <<>>
    /\ nodate \in SUBSET PageIds
    /\ probe = NoProbe
    /\ InitSide

NextFeed == StartSweep \/ CheckEntry \/ NextQueue \/ Cleanup

SpecFeed == InitFeed /\ [][NextFeed]_vars /\ WF_vars(NextFeed)

---------------------------------------------------------------------------
(* The log store driven directly: any log and cleanup call at any time *)

InitSweepVars ==
    /\ pc = "idle"
    /\ queue = <<>>
    /\ idx = 0
    /\ unreviewed_titles = <<>>
    /\ reviewed = {}
    /\ creation = [p \in PageIds |-> 1]
    /\ chk = NoCheck
    /\ notnominated = {}
    /\ sweeps = 0
    /\ trace = <<>>
    /\ nodate = {}

InitLog ==
    /\ store = EmptyStore
    /\ now = 0
    /\ last = NoCall
    /\ probe = NoProbe
    /\ InitSweepVars
    /\ InitSide

(* page names passed to the log store when it is driven directly *)
LogNames == {PageName(1), PageName(3)}

(* _onwiki_logger.log(message, page_title, rfd=rfd_title) *)
LogCall ==
    \E code \in Codes, n \in LogNames, d \in DateParams, t \in Readings(now) :
        LET r == log(store, code, Title(n), RfdTitle(d), t)
        IN  /\ store' = r.text
            /\ last' = [op |-> "log", code |-> code, page |-> Title(n),
                        rfd |-> RfdTitle(d), titles |-> {}, before |-> store,
                        t |-> t, writes |-> r.writes]
            /\ UNCHANGED <<now, sweepvars, probe, sidevars>>

(* rfd.cleanup(unreviewed_titles) *)
CleanupCall ==
    \E titles \in SUBSET LogNames, t \in Readings(now) :
        LET r == cleanup(store, titles, t)
        IN  /\ store' = r.text
            /\ last' = [op |-> "cleanup", code |-> "none", page |-> <<>>,
                        rfd |-> <<>>, titles |-> titles, before |-> store,
                        t |-> t, writes |-> r.writes]
            /\ UNCHANGED <<now, sweepvars, probe, sidevars>>

(* midnight on the clock of the bot's host *)
Tick ==
    /\ now < MaxDay
    /\ now' = now + 1
    /\ last' = NoCall
    /\ UNCHANGED <<store, sweepvars, probe, sidevars>>

NextLog == LogCall \/ CleanupCall \/ Tick

SpecLog == InitLog /\ [][NextLog]_vars

---------------------------------------------------------------------------
(* The log store on a host whose clock is on another date than the clock of
   the wiki's server (another time zone, or a clock that is off) *)

Skews == {0 - 1, 0, 1}

(* api.site_time(): the date of the server; logging_.py never asks for it *)
ServerDate == now + skew

InitClock ==
    /\ store = EmptyStore
    /\ now = 0
    /\ last = NoCall
    /\ probe = NoProbe
    /\ InitSweepVars
    /\ runs = 0
    /\ writers = [w \in WriterIds |-> IdleWriter]
    /\ skew \in Skews

NextClock == LogCall \/ Tick

SpecClock == InitClock /\ [][NextClock]_vars

---------------------------------------------------------------------------
(* Two clients that log to the same page, each inside OnWikiLogger.edit: the
   document is loaded on entry and saved on exit, and requests of the other
   client can come in between *)

(* a copy that is read again from the page at the moment of saving *)
LoadedCopy_reloaded(w) == store

(* `data = self._load_json()`: the copy the client works on until it saves *)
LoadedCopy(w) == writers[w].copy

(* entry of `with self.edit(...) as data:` in OnWikiLogger.log *)
Load(w) ==
    /\ writers[w].pc = "idle"
    /\ \E code \in Codes, n \in LogNames, d \in DateParams, t \in Readings(now) :
          writers' = [writers EXCEPT ![w] =
                         [pc |-> "loaded", copy |-> store, code |-> code,
                          page |-> Title(n), rfd |-> RfdTitle(d), t |-> t,
                          seen |-> {v \in WriterIds : writers[v].pc = "saved"},
                          order |-> 0, writes |-> 0]]
    /\ UNCHANGED <<store, now, last, sweepvars, probe, runs, skew>>

(* the body of log and the exit of edit: page.edit(text=json.dumps(data))
   if the copy has been changed *)
Persist(w) ==
    /\ writers[w].pc = "loaded"
    /\ LET x == writers[w]
           r == log(LoadedCopy(w), x.code, x.page, x.rfd, x.t)
       IN  /\ store' = IF r.writes # 0 THEN r.text ELSE store
           /\ writers' = [writers EXCEPT ![w] =
                  [x EXCEPT !.pc = "saved",
                            !.order = 1 + Cardinality({v \in WriterIds :
                                                          writers[v].pc = "saved"}),
                            !.writes = r.writes]]
    /\ UNCHANGED <<now, last, sweepvars, probe, runs, skew>>

NextWriters == \E w \in WriterIds : Load(w) \/ Persist(w)

SpecWriters == InitLog /\ [][NextWriters]_vars

---------------------------------------------------------------------------
(* The anchor test of _check_filed on one node of a log page and one title *)

(* pagenames: plain, with a space, with quotation marks *)
ProbeNames ==
    { <<"F">>, <<"F", " ", "B">>, <<"F", " ", "\"", "B", "\"">>, PageName(3) }

(* a text as an editor may space it: blanks doubled, blanks and a tab around *)
RECURSIVE Spaced(_)
Spaced(text) ==
    IF text = <<>> THEN <<"\t">>
    ELSE (IF Head(text) = " " THEN <<" ", " ">> ELSE <<Head(text)>>)
         \o Spaced(Tail(text))

(* texts of ids and headings: the pagename as {{rfd2}} writes it (quotation
   marks as &quot;), as it is, and each with irregular whitespace *)
ProbeTexts ==
    UNION {{ReplaceQuotes(n), n, <<" ">> \o Spaced(ReplaceQuotes(n)),
            <<" ">> \o Spaced(n)} : n \in ProbeNames}

(* what HTML allows inside each kind of quotes *)
FitsQuotes(text, quotes) ==
    IF quotes = DoubleQuote THEN "\"" \notin Range(text)
    ELSE IF quotes = SingleQuote THEN "'" \notin Range(text)
    ELSE Range(text) \cap (Whitespace \cup {"\"", "'"}) = {}

ProbeNodes ==
    {Heading(x) : x \in ProbeTexts}
    \cup {TagNode(name, FALSE, <<>>) : name \in {"span", "div"}}
    \cup UNION {{QuotedTag(name, x, q) :
                     name \in {"span", "div"},
                     q \in {qq \in {DoubleQuote, SingleQuote, NoQuote} :
                               FitsQuotes(x, qq)}} :
                 x \in ProbeTexts}

InitAnchor ==
    /\ store = EmptyStore
    /\ now = 0
    /\ last = NoCall
    /\ InitSweepVars
    /\ InitSide
    /\ probe \in {[node |-> n, title |-> Title(name), result |-> "none"] :
                      n \in ProbeNodes, name \in ProbeNames}

(* `filed` of _check_filed for a log page that holds the one node *)
FindAnchor ==
    /\ probe.result = "none"
    /\ probe' = [probe EXCEPT !.result =
                     IF Filed(<<probe.node>>, probe.title) THEN "filed" ELSE "not filed"]
    /\ UNCHANGED <<store, now, last, sweepvars, sidevars>>

NextAnchor == FindAnchor

SpecAnchor == InitAnchor /\ [][NextAnchor]_vars

Next == StartSweep \/ CheckEntry \/ NextQueue \/ Cleanup \/ Sleep

Spec == Init /\ [][Next]_vars

---------------------------------------------------------------------------
(* Properties of the sweep (Spec) *)

Count(l, x) == Cardinality({i \in 1..Len(l) : l[i] = x})

Checked == chk.pageid # 0

(* Verification is Filed: tag present, dated log page exists, it holds an
   anchor matching the page, and it is transcluded on the main RfD page *)
IsFiled(c) ==
    /\ c.env.tagged
    /\ c.env.exists
    /\ Filed(c.env.text, Title(c.title))
    /\ c.env.transcluded

(* C1: mark-reviewed is issued for a queue entry only if its verification is
   Filed; for NotNominated, Unfiled (redlink, or log page without a matching
   anchor) and FiledButNotTranscluded no mark-reviewed is issued. *)
C1_MarkedOnlyIfFiled == (Checked /\ chk.marked) => IsFiled(chk)

(* C2: a queue entry whose verification is Filed is marked reviewed, one
   occurrence of its title is removed from unreviewed_titles (nothing else in
   the list changes), log is not called and the log store is left as it was. *)
C2_FiledIsReviewed ==
    (Checked /\ IsFiled(chk)) =>
        /\ chk.marked
        /\ chk.pageid \in reviewed
        /\ Len(unreviewed_titles) = Len(chk.before) - 1
        /\ \A n \in PageNames :
              Count(unreviewed_titles, n) =
                  Count(chk.before, n) - (IF n = chk.title THEN 1 ELSE 0)
        /\ chk.logcalls = 0
        /\ last = NoCall
        /\ store = chk.stored

C2_Witness ==
    /\ Checked /\ IsFiled(chk) /\ chk.marked
    /\ store # EmptyStore
    /\ unreviewed_titles # <<>>

(* C3: for a page without the RfD tag no log page is probed, log is not
   called, the page is not marked reviewed, the log store is unchanged, and
   its title is in unreviewed_titles from then on, also in the list that is
   handed to cleanup. *)
C3_NotNominatedSkipped ==
    /\ (Checked /\ ~chk.env.tagged) =>
          /\ ~chk.probed
          /\ chk.logcalls = 0
          /\ last = NoCall
          /\ ~chk.marked
          /\ chk.pageid \notin reviewed
          /\ store = chk.stored
          /\ unreviewed_titles = chk.before
    /\ pc \in {"for", "cleanup", "done"} =>
          \A n \in notnominated : Count(unreviewed_titles, n) > 0
    /\ last.op = "cleanup" => notnominated \subseteq last.titles

C3_Witness ==
    /\ last.op = "cleanup"
    /\ notnominated # {}
    /\ last.before # EmptyStore
    /\ reviewed # {}

(* C4: for a page that carries the RfD tag, log is called exactly once when
   the outcome is not Filed, with RFD0 when the dated log page does not
   exist, RFD1 when it exists without a matching anchor, RFD2 when the anchor
   is there but the log page is not transcluded; log is not called for Filed. *)
C4_LogCodeByOutcome ==
    (Checked /\ chk.env.tagged) =>
        LET anchored == Filed(chk.env.text, Title(chk.title))
            expected == IF ~chk.env.exists THEN "RFD0"
                        ELSE IF ~anchored THEN "RFD1"
                        ELSE IF ~chk.env.transcluded THEN "RFD2"
                        ELSE "none"
        IN  /\ chk.code = expected
            /\ IsFiled(chk) <=> chk.logcalls = 0
            /\ ~IsFiled(chk) =>
                  /\ chk.logcalls = 1
                  /\ last.op = "log"
                  /\ last.code = expected
                  /\ last.page = Title(chk.title)
                  /\ last.rfd = RfdTitle(chk.env.date)
            /\ IsFiled(chk) => last = NoCall

C4_Witness ==
    /\ Checked /\ chk.env.tagged /\ chk.env.exists
    /\ Filed(chk.env.text, Title(chk.title))
    /\ ~chk.env.transcluded
    /\ chk.code = "RFD2"
    /\ last.writes = 1

---------------------------------------------------------------------------
(* Properties of the log store (SpecLog) *)

(* positions <<day, index>> of the events of a page in a store *)
Occurrences(st, page) ==
    {x \in UNION {{<<d, i>> : i \in 1..Len(st[d])} : d \in DOMAIN st} :
         st[x[1]][x[2]].page = page}

PagesIn(st) == UNION {{st[d][i].page : i \in 1..Len(st[d])} : d \in DOMAIN st}

(* age in days of a day-key at the clock reading t *)
Age(d, t) == t.date - d

(* C5: the store holds at most one event per page title over all day-keys
   together, and after a log call exactly one event for the page logged. *)
C5_OneEventPerPage ==
    /\ \A page \in PagesIn(store) : Cardinality(Occurrences(store, page)) = 1
    /\ last.op = "log" => Cardinality(Occurrences(store, last.page)) = 1

C5_Witness ==
    /\ last.op = "log"
    /\ \E x \in Occurrences(last.before, last.page) :
          last.before[x[1]][x[2]].code = last.code
    /\ Cardinality(PagesIn(store)) = 2

(* C6: log of a page that already has an event, under any day-key and with
   any code, changes nothing in the store and writes nothing. *)
C6_LogOfLoggedPageIsNoOp ==
    (last.op = "log" /\ last.page \in PagesIn(last.before)) =>
        /\ store = last.before
        /\ last.writes = 0

C6_Witness ==
    /\ last.op = "log"
    /\ \E x \in Occurrences(last.before, last.page) :
          /\ last.before[x[1]][x[2]].code # last.code
          /\ x[1] # last.t.date

(* C7: log of a page that has no event appends one event {page, code,
   message, timestamp} at the end of the list under today's day-key, creating
   the key if need be, leaves all other day-keys and the earlier events of
   today as they were, and writes once. *)
C7_LogAppendsOneEvent ==
    (last.op = "log" /\ last.page \notin PagesIn(last.before)) =>
        LET today == last.t.date
            old == IF today \in DOMAIN last.before THEN last.before[today] ELSE <<>>
        IN  /\ DOMAIN store = DOMAIN last.before \cup {today}
            /\ \A d \in DOMAIN last.before \ {today} : store[d] = last.before[d]
            /\ Len(store[today]) = Len(old) + 1
            /\ SubSeq(store[today], 1, Len(old)) = old
            /\ store[today][Len(old) + 1].page = last.page
            /\ store[today][Len(old) + 1].code = last.code
            /\ store[today][Len(old) + 1].message.template = last.code
            /\ store[today][Len(old) + 1].message.page = last.page
            /\ store[today][Len(old) + 1].message.rfd = last.rfd
            /\ store[today][Len(old) + 1].timestamp.date = today
            /\ DOMAIN store[today][Len(old) + 1] = {"page", "code", "message", "timestamp"}
            /\ last.writes = 1

C7_Witness ==
    /\ last.op = "log"
    /\ last.page \notin PagesIn(last.before)
    /\ last.t.date \in DOMAIN last.before
    /\ Len(store[last.t.date]) = 2
    /\ last.writes = 1

(* C8: cleanup deletes every day-key more than 7 days before the current
   date, with all its events, also those of pages still pending; a day-key 7
   days old or younger that holds an event of a pending page is kept. *)
C8_OldDaysDeleted ==
    last.op = "cleanup" =>
        \A d \in DOMAIN last.before :
            /\ Age(d, last.t) > 7 => d \notin DOMAIN store
            /\ (/\ Age(d, last.t) <= 7
                /\ \E i \in 1..Len(last.before[d]) :
                      RemovePrefixColon(last.before[d][i].page) \in last.titles)
               => d \in DOMAIN store

C8_Witness ==
    /\ last.op = "cleanup"
    /\ \E d \in DOMAIN last.before :
          /\ Age(d, last.t) > 7
          /\ \E i \in 1..Len(last.before[d]) :
                RemovePrefixColon(last.before[d][i].page) \in last.titles
    /\ \E d \in DOMAIN last.before : Age(d, last.t) = 7 /\ d \in DOMAIN store

(* C9: after cleanup(pending) a day-key at most 7 days old holds exactly
   those of its events whose page, leading colon stripped, is in pending, in
   their order; a day-key left without events is removed, and no day-key maps
   to an empty list. *)
C9_KeepsPendingInOrder ==
    /\ last.op = "cleanup" =>
          \A d \in DOMAIN last.before :
              Age(d, last.t) <= 7 =>
                  LET kept == SelectSeq(last.before[d],
                                  LAMBDA e : (IF e.page[1] = ":" THEN Tail(e.page)
                                              ELSE e.page) \in last.titles)
                  IN  IF kept = <<>> THEN d \notin DOMAIN store
                      ELSE d \in DOMAIN store /\ store[d] = kept
    /\ last.op = "cleanup" => DOMAIN store \subseteq DOMAIN last.before
    /\ \A d \in DOMAIN store : store[d] # <<>>

C9_Witness ==
    /\ last.op = "cleanup"
    /\ \E d \in DOMAIN store :
          /\ Age(d, last.t) <= 7
          /\ Len(last.before[d]) = 2 /\ Len(store[d]) = 1
          /\ store[d][1] = last.before[d][2]

(* C10: log and cleanup write the log page only if the store after the
   operation differs from the store that was loaded. *)
C10_WriteOnlyIfChanged ==
    (last.op \in {"log", "cleanup"} /\ last.writes = 1) => store # last.before

---------------------------------------------------------------------------
(* Properties of one call of checkqueue (SpecFeed, Spec) *)

Fetches == SelectSeq(trace, LAMBDA e : e.op = "fetch")

(* how often the running sweep has done `op` for pageid p *)
TimesIn(op, p) ==
    Cardinality({i \in 1..Len(trace) : trace[i].op = op /\ trace[i].pageid = p})

(* the feed holds exactly one entry when the sweep starts: the first query,
   with cursor 1 and a limit above 1, returns one entry *)
OneEntryFeed == trace # <<>> /\ Cardinality(trace[1].ids) = 1

(* checkqueue has left its `while True:` by break *)
SweepOver == pc \in {"cleanup", "done"}

(* C11: for every finite feed that does not grow during the sweep (every
   entry with its creation_date), checkqueue eventually stops fetching and
   reaches cleanup. *)
C11_SweepReachesCleanup == (pc = "for" /\ nodate = {}) ~> (pc = "cleanup")

(* every sweep ends: in cleanup, or by the IndexError of an empty first
   queue, or by QueueError *)
SweepEnds == (pc = "for") ~> (pc \in {"cleanup", "exit", "QueueError"})

(* a sweep whose first queue is not empty reaches cleanup *)
FedSweepReachesCleanup ==
    (pc = "for" /\ queue # <<>> /\ nodate = {}) ~> (pc = "cleanup")

(* C12, as stated: for a feed of exactly one entry a single feed query is
   issued in the whole sweep. *)
C12_SingleQuery == (OneEntryFeed /\ SweepOver) => Len(Fetches) = 1

(* C12, amended: for a feed of exactly one entry the sweep issues exactly two
   feed queries, the first with cursor 1 and the second with the entry's
   creation_date as cursor; the second returns that entry again or nothing,
   and the sweep ends there. *)
C12_TwoQueries ==
    (OneEntryFeed /\ SweepOver) =>
        /\ Len(Fetches) = 2
        /\ Fetches[1].start = 1
        /\ \A p \in Fetches[1].ids : Fetches[2].start = creation[p]
        /\ Fetches[2].ids \in {{}, Fetches[1].ids}
        /\ \A p \in Fetches[1].ids : TimesIn("verify", p) = 1

C12_Witness ==
    /\ OneEntryFeed
    /\ pc = "done"
    /\ Len(Fetches) = 2
    /\ Fetches[2].ids = Fetches[1].ids

(* C13: within one sweep each queue entry (by page id) is verified at most
   once, also when two consecutive fetches overlap. *)
C13_VerifiedAtMostOnce == \A p \in PageIds : TimesIn("verify", p) <= 1

(* C14: within one sweep no page is marked reviewed more than once, also when
   two consecutive fetches return overlapping entries that share the cursor
   timestamp. *)
C14_ReviewedAtMostOnce == \A p \in PageIds : TimesIn("review", p) <= 1

C14_Witness ==
    /\ Len(Fetches) >= 2
    /\ \E p \in Fetches[1].ids \cap Fetches[2].ids :
          /\ creation[p] = Fetches[2].start
          /\ TimesIn("verify", p) = 2
          /\ TimesIn("review", p) = 1

(* titles returned by a fetch of the running sweep, titles it marked reviewed *)
FetchedTitles ==
    UNION {{PageName(p) : p \in trace[i].ids} :
               i \in {k \in 1..Len(trace) : trace[k].op = "fetch"}}

ReviewedTitles ==
    {PageName(trace[i].pageid) :
         i \in {k \in 1..Len(trace) : trace[k].op = "review"}}

(* C15: the set of titles in unreviewed_titles that cleanup gets is the set
   of titles returned by any fetch of the sweep minus the titles marked
   reviewed in the sweep, and a title is out of the set as soon as its page
   is marked reviewed. *)
C15_PendingIsFetchedMinusReviewed ==
    /\ \A n \in ReviewedTitles : n \notin Range(unreviewed_titles)
    /\ last.op = "cleanup" => last.titles = FetchedTitles \ ReviewedTitles

(* C16: cleanup is invoked once per completed sweep, after the terminating
   fetch (empty, or ending in the pageid that ends the current queue) and
   with the final unreviewed_titles, and it is the last thing the sweep does:
   no fetch, verification, mark-reviewed or log write comes after it. *)
C16_CleanupOnceAtEnd ==
    /\ \A i \in 1..Len(trace) : trace[i].op = "cleanup" => i = Len(trace)
    /\ pc # "done" => \A i \in 1..Len(trace) : trace[i].op # "cleanup"
    /\ pc = "done" =>
          /\ Len(trace) >= 2
          /\ trace[Len(trace)].op = "cleanup"
          /\ trace[Len(trace) - 1].op = "fetch"
          /\ \/ trace[Len(trace) - 1].ids = {}
             \/ trace[Len(trace) - 1].pageid = queue[Len(queue)].pageid
          /\ last.op = "cleanup"
          /\ last.titles = Range(unreviewed_titles)

C16_Witness ==
    /\ pc = "done"
    /\ Len(Fetches) = 3
    /\ \E i, j \in 1..Len(trace) : trace[i].op = "review" /\ trace[j].op = "logwrite"
    /\ trace[Len(trace) - 1].ids # {}

(* C17: if any entry of a fetched queue page lacks creation_date, the sweep
   aborts with QueueError: no further fetch is issued and cleanup is not
   invoked for that sweep. *)
C17_MissingDateAborts ==
    \A i \in 1..Len(trace) :
        (trace[i].op = "fetch" /\ trace[i].ids \cap nodate # {}) =>
            /\ \A j \in (i + 1)..Len(trace) : trace[j].op \notin {"fetch", "cleanup"}
            /\ ~SweepOver

(* what the code tests is the last entry of the page: if that one lacks
   creation_date, no fetch and no cleanup follow *)
LastMissingDateAborts ==
    \A i \in 1..Len(trace) :
        (trace[i].op = "fetch" /\ trace[i].pageid \in nodate) =>
            /\ \A j \in (i + 1)..Len(trace) : trace[j].op \notin {"fetch", "cleanup"}
            /\ ~SweepOver

QueueErrorRaised ==
    /\ pc = "QueueError"
    /\ \E i \in 1..Len(trace) : trace[i].op = "review"

(* C18: when the dated log page does not exist, the PageNotFoundError of
   get_page stays inside _check_filed: log is called with RFD0, check_rfd
   returns False, the page is not marked reviewed, and the for loop goes on
   to the next entry; checkqueue never ends by PageNotFoundError. *)
C18_MissingLogPageIsAbsorbed ==
    /\ pc # "PageNotFoundError"
    /\ (Checked /\ chk.env.tagged /\ ~chk.env.exists) =>
          /\ chk.raised = "none"
          /\ chk.code = "RFD0"
          /\ chk.logcalls = 1
          /\ last.op = "log" /\ last.code = "RFD0" /\ last.page = Title(chk.title)
          /\ Title(chk.title) \in PagesIn(store)
          /\ ~chk.result
          /\ ~chk.marked
          /\ TimesIn("review", chk.pageid) = 0
          /\ unreviewed_titles = chk.before
          /\ pc = "for"
          /\ idx = chk.pos + 1

C18_Witness ==
    /\ Checked /\ chk.env.tagged /\ ~chk.env.exists
    /\ last.writes = 1
    /\ chk.pos = 1 /\ Len(queue) = 2
    /\ pc = "for"

(* C19: when a sweep is done, the log store holds an event for every page for
   which the sweep's verification recorded an omission (RFD0, RFD1 or RFD2)
   as its last finding for the page. *)
C19_OmissionsOnRecord ==
    pc = "done" =>
        \A i \in 1..Len(trace) :
            (/\ trace[i].op = "logwrite"
             /\ \A j \in (i + 1)..Len(trace) :
                   ~(trace[j].op = "verify" /\ trace[j].pageid = trace[i].pageid))
            => Title(PageName(trace[i].pageid)) \in PagesIn(store)

(* the same for the omissions that leave the page pending (RFD0, RFD2) *)
PendingOmissionsOnRecord ==
    pc = "done" =>
        \A i \in 1..Len(trace) :
            (/\ trace[i].op = "logwrite"
             /\ trace[i].code \in {"RFD0", "RFD2"}
             /\ \A j \in (i + 1)..Len(trace) :
                   ~(trace[j].op = "verify" /\ trace[j].pageid = trace[i].pageid))
            => Title(PageName(trace[i].pageid)) \in PagesIn(store)

---------------------------------------------------------------------------
(* Properties of the anchor test (SpecAnchor) *)

(* `&quot;` turned back into the quotation mark *)
RECURSIVE DecodeQuot(_)
DecodeQuot(text) ==
    IF text = <<>> THEN <<>>
    ELSE IF Len(text) >= Len(Quot) /\ SubSeq(text, 1, Len(Quot)) = Quot
    THEN <<"\"">> \o DecodeQuot(SubSeq(text, Len(Quot) + 1, Len(text)))
    ELSE <<Head(text)>> \o DecodeQuot(Tail(text))

Probed == probe.result # "none"

(* the id value of the probed tag, &quot; decoded and whitespace collapsed,
   is the page title without its leading colon *)
IdIsTitle ==
    /\ probe.node.kind = "tag"
    /\ probe.node.hasid
    /\ compress_ws(DecodeQuot(probe.node.id)) = RemovePrefixColon(probe.title)

(* C20, as stated: a span tag whose id value, with &quot; turned back into "
   and whitespace collapsed, equals the page title without its leading colon
   is accepted; a span without id and a tag of another kind never match. *)
C20_SpanIdMatches ==
    (Probed /\ probe.node.kind = "tag") =>
        /\ (probe.node.tag = "span" /\ IdIsTitle) => probe.result = "filed"
        /\ (probe.node.tag # "span" \/ ~probe.node.hasid) => probe.result = "not filed"

(* C20, amended: the same for an id written as {{rfd2}} writes it, in double
   quotes (or without quotes). *)
C20_QuotedSpanIdMatches ==
    (Probed /\ probe.node.kind = "tag") =>
        /\ (/\ probe.node.tag = "span"
            /\ IdIsTitle
            /\ probe.node.quotes \in {DoubleQuote, NoQuote})
           => probe.result = "filed"
        /\ (probe.node.tag # "span" \/ ~probe.node.hasid) => probe.result = "not filed"

(* <span id="F &quot;B&quot;"> and the page :F "B" *)
C20_Witness ==
    /\ probe.node = QuotedTag("span", <<"F", " ">> \o Quot \o <<"B">> \o Quot, DoubleQuote)
    /\ probe.title = <<":", "F", " ", "\"", "B", "\"">>
    /\ probe.result = "filed"

(* the probed heading's title, whitespace collapsed, is the page title
   without its leading colon *)
HeadingIsTitle ==
    /\ probe.node.kind = "heading"
    /\ compress_ws(probe.node.title) = RemovePrefixColon(probe.title)

(* C21: a heading whose title, with runs of whitespace collapsed, equals the
   page title without its leading colon is accepted, for every page title,
   also one that contains a double quote. *)
C21_HeadingMatches == (Probed /\ HeadingIsTitle) => probe.result = "filed"

(* the same for the page titles without a double quote *)
HeadingMatchesPlainTitle ==
    (Probed /\ HeadingIsTitle /\ "\"" \notin Range(probe.title))
        => probe.result = "filed"

(* == F  B == with irregular whitespace and the page :F B *)
SpacedHeadingFiled ==
    /\ probe.node = Heading(<<" ">> \o Spaced(<<"F", " ", "B">>))
    /\ probe.title = <<":", "F", " ", "B">>
    /\ probe.result = "filed"

---------------------------------------------------------------------------
(* C22: the first query of every checkqueue call, also of one that follows a
   call that was cut short, has cursor 1 and starts unreviewed_titles from
   the empty list, so that after it unreviewed_titles holds the titles of
   that first page only; every later query has as cursor exactly the
   creation_date of the last entry of the page fetched before it *)
C22_FreshStartSameCursor ==
    /\ trace # <<>> => trace[1].op = "fetch" /\ trace[1].start = 1
    /\ (Len(trace) = 1 /\ pc = "for") => unreviewed_titles = TitlesOf(queue)
    /\ \A k \in 2..Len(Fetches) :
          /\ Fetches[k - 1].pageid \in PageIds
          /\ Fetches[k].start = creation[Fetches[k - 1].pageid]

(* a call after the process died once: its second query starts on the last
   timestamp of the first page, later than 1, and returns an entry of just
   that timestamp *)
RestartedSweepReusesTimestamp ==
    /\ runs = 1
    /\ Len(Fetches) >= 2
    /\ Fetches[2].start > 1
    /\ \E p \in Fetches[2].ids : creation[p] = Fetches[2].start

(* pageids the running sweep has marked reviewed *)
ReviewedInSweep ==
    {trace[i].pageid : i \in {j \in 1..Len(trace) : trace[j].op = "review"}}

(* the unreviewed entries of the feed at the moment the sweep started *)
StartFeed == PageIds \ (reviewed \ ReviewedInSweep)

(* fewer entries than the limit of a page on each single creation_date, and
   each entry with its creation_date *)
FewShareDate ==
    /\ nodate = {}
    /\ \A d \in 1..MaxFeedDate :
          Cardinality({p \in StartFeed : creation[p] = d}) < PageLimit

(* checkqueue has left its loop, by break or by an exception *)
SweepEnded == pc \in {"cleanup", "done", "exit", "QueueError"}

(* C23: if fewer unreviewed entries than the limit of a page share any one
   creation_date, and the feed changes only by the reviews of the sweep, then
   every entry that was in the feed when the sweep started has been verified
   at least once when the sweep has ended *)
C23_NoEntrySkipped ==
    (SweepEnded /\ FewShareDate) =>
        \A p \in StartFeed : TimesIn("verify", p) >= 1

(* a feed of three entries on three dates, more than one page long, swept to
   its end in three or more queries *)
ThreePagesAllVerified ==
    /\ SweepOver
    /\ FewShareDate
    /\ StartFeed = PageIds
    /\ Len(Fetches) >= 3
    /\ \A p \in PageIds : TimesIn("verify", p) >= 1

(* a date that the limit of a page or more of the unreviewed entries of the
   start feed share, each entry of the feed with its creation_date *)
CrowdedDates ==
    {d \in 1..MaxFeedDate :
        /\ nodate = {}
        /\ Cardinality({p \in StartFeed : creation[p] = d}) >= PageLimit}

(* pageids that a query of the running sweep has returned *)
FetchedIds == UNION {Fetches[k].ids : k \in 1..Len(Fetches)}

(* C24, as stated: if the limit of a page or more unreviewed entries share
   one creation_date, the sweep ends at that timestamp: no entry of a later
   creation_date is fetched in that sweep, and the sweep ends in cleanup
   without an error *)
C24_CrowdedDateEndsSweep ==
    \A d \in CrowdedDates :
        /\ \A p \in FetchedIds : creation[p] <= d
        /\ pc \notin {"exit", "QueueError", "PageNotFoundError"}

(* a date that the limit of a page or more entries share that are unreviewed
   now, so that the reviews of the sweep have left a full page of them *)
StillCrowdedDates ==
    {d \in 1..MaxFeedDate :
        /\ nodate = {}
        /\ Cardinality({p \in PageIds \ reviewed : creation[p] = d}) >= PageLimit}

(* C24, amended: as long as the limit of a page or more entries of one
   creation_date are left unreviewed, no query of the sweep returns an entry
   of a later creation_date, and the sweep has not ended by an error *)
C24_StillCrowdedDateEndsSweep ==
    \A d \in StillCrowdedDates :
        /\ \A p \in FetchedIds : creation[p] <= d
        /\ pc \notin {"exit", "QueueError", "PageNotFoundError"}

(* cleanup has run and the sweep is over with a full page of entries of one
   date left unreviewed and a later entry that no query has returned *)
EarlyEndAtCrowdedDate ==
    /\ pc = "done"
    /\ \E d \in StillCrowdedDates :
          \E p \in PageIds \ reviewed : creation[p] > d /\ p \notin FetchedIds

---------------------------------------------------------------------------
(* Properties of sweeps in which requests fail (SpecFail) *)

(* C25: a feed query, a page read, a mark-reviewed call or a write of the log
   page that fails is not tried again: the exception is the last thing the
   sweep does, the process ends with it, no request follows, and cleanup is
   not called after a failure of the loop *)
C25_FailureAbortsSweep ==
    \A i \in 1..Len(trace) :
        trace[i].op = "raise" =>
            /\ i = Len(trace)
            /\ i > 1
            /\ pc = trace[i].code
            /\ trace[i - 1].op # "cleanup" =>
                   \A j \in 1..Len(trace) : trace[j].op # "cleanup"

(* the mark-reviewed call of the second pass fails after the log page was
   written *)
ReviewFailedMidSweep ==
    /\ pc = "APIError"
    /\ Len(trace) >= 2
    /\ trace[Len(trace)].op = "raise"
    /\ trace[Len(trace) - 1].op = "review"
    /\ Len(Fetches) >= 2
    /\ \E j \in 1..Len(trace) : trace[j].op = "logwrite"

---------------------------------------------------------------------------
(* Properties of the requests of a sweep (Spec) *)

(* C26: every call of a sweep that changes the wiki, a mark-reviewed call or
   a write of the log page by log or by cleanup, is followed by the fixed
   sleep before the next request of the sweep *)
C26_DelayAfterEveryWrite ==
    \A i \in 1..(Len(trace) - 1) :
        trace[i].op \in {"review", "logwrite", "cleanup"} =>
            trace[i + 1].op = "sleep"

(* what api.post gives: the sleep follows each mark-reviewed call *)
DelayAfterReview ==
    \A i \in 1..Len(trace) :
        trace[i].op = "review" =>
            i < Len(trace) /\ trace[i + 1].op = "sleep"

---------------------------------------------------------------------------
(* Properties of two clients on one log page (SpecWriters) *)

(* w1 and w2 both loaded the document before either saved, both saved, and
   w2 saved last *)
Overlapped(w1, w2) ==
    /\ w1 # w2
    /\ writers[w1].pc = "saved" /\ writers[w2].pc = "saved"
    /\ writers[w1].order < writers[w2].order
    /\ writers[w1].seen = {} /\ writers[w2].seen = {}
    /\ writers[w1].writes # 0 /\ writers[w2].writes # 0

(* the document that a client saves: its own copy with its event *)
FullCopy(w) ==
    log(writers[w].copy, writers[w].code, writers[w].page, writers[w].rfd,
        writers[w].t).text

(* C27: when two clients both load the log document before either saves and
   then both save, the document is the full copy of the later one, and the
   event that the earlier one appended for another page is gone *)
C27_LastWriterWins ==
    \A w1, w2 \in WriterIds :
        Overlapped(w1, w2) =>
            /\ store = FullCopy(w2)
            /\ writers[w1].page # writers[w2].page =>
                   writers[w1].page \notin LoggedPages(load_json(store))

(* both clients have saved events of different pages and the one of the
   earlier client is not in the document *)
EarlierEventLost ==
    \E w1, w2 \in WriterIds :
        /\ Overlapped(w1, w2)
        /\ writers[w1].page # writers[w2].page
        /\ writers[w1].page \notin LoggedPages(load_json(store))
        /\ writers[w2].page \in LoggedPages(load_json(store))

---------------------------------------------------------------------------
(* Properties of the day-key on a host with its own date (SpecClock) *)

(* C28: the day-key under which log stores a new event is the date of the
   wiki's server, also when the clock of the bot's host is on another date *)
C28_DayKeyIsServerDate ==
    (last.op = "log" /\ last.writes # 0) =>
        /\ ServerDate \in DOMAIN store
        /\ \E i \in 1..Len(store[ServerDate]) : store[ServerDate][i].page = last.page

(* what the code does: the day-key is the date of the clock of the host *)
DayKeyIsHostDate ==
    (last.op = "log" /\ last.writes # 0) =>
        /\ now \in DOMAIN store
        /\ \E i \in 1..Len(store[now]) : store[now][i].page = last.page

---------------------------------------------------------------------------
(* Properties of one call of checkqueue on any feed, continued (SpecFeed) *)

(* the first query of the sweep came back empty *)
FirstFetchEmpty ==
    /\ trace # <<>>
    /\ trace[1].op = "fetch"
    /\ trace[1].ids = {}

(* C29: when the first query of a sweep returns an empty page, the sweep ends
   normally: no error is raised, and cleanup is called with no pending
   title *)
C29_EmptyFeedEndsInCleanup ==
    FirstFetchEmpty =>
        /\ pc \in {"for", "cleanup", "done"}
        /\ pc = "done" => last.op = "cleanup" /\ last.titles = {}

(* what the code does: the sweep over an empty feed ends by the IndexError
   of queue[-1], without a second query and without cleanup *)
EmptyFeedEndsByIndexError ==
    (FirstFetchEmpty /\ pc # "for") =>
        /\ pc = "exit"
        /\ Len(trace) = 1

(* C30: within one sweep the cursor never goes back: the feed returns only
   entries from the cursor on, oldest first, and the cursor of each query is
   at least the cursor of the query before it *)
C30_CursorNeverDecreases ==
    \A k \in 2..Len(Fetches) : Fetches[k - 1].start <= Fetches[k].start

(* a sweep of three queries whose cursor has moved on twice *)
CursorMovedTwice ==
    /\ Len(Fetches) >= 3
    /\ Fetches[1].start < Fetches[2].start
    /\ Fetches[2].start < Fetches[3].start

---------------------------------------------------------------------------
(* Properties of the store as a whole (SpecLog) *)

(* C31: in every store reached from the empty store by log and cleanup calls,
   each event sits under the day-key that is the date of its own timestamp:
   log takes both from one reading of the clock, and cleanup leaves each
   event it keeps under its day-key *)
C31_EventUnderItsOwnDay ==
    \A day \in DOMAIN store :
        \A i \in 1..Len(store[day]) : store[day][i].timestamp.date = day

(* a cleanup on a later day has rewritten the store, dropped an event and
   kept another one under the earlier day on which it was logged *)
C31_Witness ==
    /\ last.op = "cleanup"
    /\ last.writes # 0
    /\ store # last.before
    /\ \E day \in DOMAIN store :
          /\ day < now
          /\ store[day] # <<>>
          /\ store[day] # last.before[day]
          /\ store[day][1].timestamp.date = day

====
